---------------------------- MODULE Spec2Model ----------------------------
(***************************************************************************)
(* Connect Four (src/connect4.js).  The file holds two variants of the     *)
(* game:                                                                   *)
(*   - the rotation variant (lines 1-217): N players take turns, the       *)
(*     player list is rotated after every move that does not end the game; *)
(*   - the human/computer variant (lines 219-456): a human plays by        *)
(*     clicking, the computer replies from a timer callback.               *)
(* Both are event driven: a click on the row of column tops runs           *)
(* handleClick to completion; in the human/computer variant a timer        *)
(* callback runs the computer's reply to completion.                       *)
(***************************************************************************)
EXTENDS Integers, Sequences, FiniteSets, TLC

VARIABLES
  variant,     \* which of the two scripts runs: "rotation" or "computer"
  width,       \* this.width
  height,      \* this.height
  board,       \* this.board: board[y][x], row 0 at the top
  players,     \* this.players (rotation variant), a sequence of Player objects
  currPlayer,  \* this.currPlayer
  compPlayer,  \* this.compPlayer (human/computer variant)
  canClick,    \* this.canClick (human/computer variant)
  pending,     \* computer replies scheduled by setTimeout and not yet run
  listening,   \* the click listener is attached to #column-top
  alerts,      \* the messages endGame has announced, in order
  lastEvt,     \* the last callback run and the branch it took
  offGrid      \* the bottom rows of this.board whose property "NaN", set by
               \* clicks on the row of column tops itself, holds a token

vars == <<variant, width, height, board, players, currPlayer, compPlayer, canClick,
          pending, listening, alerts, lastEvt, offGrid>>

---------------------------------------------------------------------------
(* Bounds of the model.                                                    *)

\* Boards of 1..MaxWidth columns and 1..MaxHeight rows are created.
MaxWidth == 4
MaxHeight == 4
\* A game is played on a board of at most this many cells.
MaxCells == 8
\* The user does not click while this many computer replies are pending.
MaxPending == 2
\* A hand-made grid holds at most this many tokens.
MaxTokens == 4
\* A game of the rotation variant is created with numPlayers..MaxPlayers
\* players.
MaxPlayers == 3

---------------------------------------------------------------------------
(* JavaScript values.                                                      *)

\* The value of an array slot that was never written (Array.from({length})).
undefined == "undefined"

\* findSpotForCol's "column is filled" result.
null == -1

\* JavaScript truthiness of a cell: undefined and the empty string are falsy.
Truthy(v) == v # undefined /\ v # ""

Rows == 0..(height - 1)
Cols == 0..(width - 1)

\* makeBoard: height rows of width empty slots.
makeBoard(w, h) == [y \in 0..(h - 1) |-> [x \in 0..(w - 1) |-> undefined]]

---------------------------------------------------------------------------
(* Board mechanics, shared by the two variants (the code is duplicated).   *)

\* The loop of findSpotForCol from row y upwards.
RECURSIVE findSpotFrom(_, _, _)
findSpotFrom(b, x, y) ==
  IF y < 0 THEN null
  ELSE IF ~Truthy(b[y][x]) THEN y
  ELSE findSpotFrom(b, x, y - 1)

\* findSpotForCol that scans the column from the top row down.
findSpotForColTopFirst(b, x) ==
  LET free == {y \in 0..(height - 1) : ~Truthy(b[y][x])}
  IN  IF free = {} THEN null
      ELSE CHOOSE y \in free : \A y2 \in free : y <= y2

\* findSpotForCol: given column x, return the lowest empty y (null if filled).
findSpotForCol(b, x) == findSpotFrom(b, x, height - 1)

\* The tie test: this.board.every(row => row.every(cell => cell)).
isFull(b) == \A y \in Rows : \A x \in Cols : Truthy(b[y][x])

\* _win: all four cells are legal coordinates and hold the given color.
\* The conjunction is evaluated left to right, as && is: an illegal
\* coordinate is never used to index the board.
win(b, color, cells) ==
  \A i \in 1..4 :
    LET y == cells[i][1]
        x == cells[i][2]
    IN  /\ y >= 0
        /\ y < height
        /\ x >= 0
        /\ x < width
        /\ b[y][x] = color

horiz(y, x)  == << <<y, x>>, <<y, x + 1>>, <<y, x + 2>>, <<y, x + 3>> >>
vert(y, x)   == << <<y, x>>, <<y + 1, x>>, <<y + 2, x>>, <<y + 3, x>> >>
diagDR(y, x) == << <<y, x>>, <<y + 1, x + 1>>, <<y + 2, x + 2>>, <<y + 3, x + 3>> >>
\* diagDL with the column stepping the wrong way.
diagDLWrongWay(y, x) ==
  << <<y, x>>, <<y + 1, x + 1>>, <<y + 2, x + 2>>, <<y + 3, x + 3>> >>
diagDL(y, x) == << <<y, x>>, <<y + 1, x - 1>>, <<y + 2, x - 2>>, <<y + 3, x - 3>> >>

\* checkForWin: check the board cell by cell for "does a win start here?".
\* The rotation variant tests this.currPlayer.color, the human/computer
\* variant the color of the player it is given.
checkForWin(b, color) ==
  \E y \in Rows : \E x \in Cols :
    \/ win(b, color, horiz(y, x))
    \/ win(b, color, vert(y, x))
    \/ win(b, color, diagDR(y, x))
    \/ win(b, color, diagDL(y, x))

\* endGame that leaves the click listener attached.
endGameKeepsListener(msg) ==
  /\ alerts' = Append(alerts, msg)
  /\ listening' = listening

\* endGame: announce the message and detach the click listener.
endGame(msg) ==
  /\ alerts' = Append(alerts, msg)
  /\ listening' = FALSE

WonMsg(who) == [text |-> "won", who |-> who]
TieMsg      == [text |-> "Tie!", who |-> ""]

\* The user can click a column top: the listener is attached.
UserClicks == listening /\ pending < MaxPending


---------------------------------------------------------------------------
(* The start form.  The colors are whatever the fields hold: they may be   *)
(* empty or equal.                                                         *)

FirstColors == {"", "red"}
OtherColors == {"", "red", "blue"}

\* let numPlayers = 2
numPlayers == 2

\* The color of a player passed to the constructor beyond the form's two.
ExtraColors == {"green"}

\* The color typed for player i of the form, or given to a further player.
FormColors(i) ==
  IF i = 1 THEN FirstColors
  ELSE IF i <= numPlayers THEN OtherColors
  ELSE ExtraColors

NoPlayer == [color |-> undefined]
NoEvt == [kind |-> "none", ret |-> "none"]

---------------------------------------------------------------------------
(* The rotation variant.                                                   *)

\* new Player(color); ref stands for the identity of the object.
Player(ref, color) == [ref |-> ref, color |-> color]

\* startGame and the constructor: the players in form order, the first one
\* to move, an empty board, the listener attached.  startGame passes
\* numPlayers players; the constructor takes any number of them.
InitRot ==
  /\ variant = "rotation"
  /\ width \in 1..MaxWidth
  /\ height \in 1..MaxHeight
  /\ width * height <= MaxCells
  /\ board = makeBoard(width, height)
  /\ \E n \in numPlayers..MaxPlayers :
       \E colors \in [1..n -> FirstColors \cup OtherColors \cup ExtraColors] :
         /\ \A i \in 1..n : colors[i] \in FormColors(i)
         /\ players = [i \in 1..n |-> Player(i, colors[i])]
  /\ currPlayer = players[1]
  /\ compPlayer = NoPlayer
  /\ canClick = TRUE
  /\ pending = 0
  /\ listening = TRUE
  /\ alerts = <<>>
  /\ lastEvt = NoEvt
  /\ offGrid = 0

\* switchPlayers that exchanges the first two players of the list.
switchPlayersSwapsFirstTwo ==
  LET n == Len(players)
      swapped == [i \in 1..n |-> IF i = 1 THEN players[2]
                                 ELSE IF i = 2 THEN players[1]
                                 ELSE players[i]]
  IN  /\ players' = swapped
      /\ currPlayer' = swapped[1]

\* switchPlayers: shift the list left by one, put the current player last,
\* the new first player is current.
switchPlayers ==
  LET n == Len(players)
      shifted == [i \in 1..n |-> IF i < n THEN players[i + 1] ELSE currPlayer]
  IN  /\ players' = shifted
      /\ currPlayer' = shifted[1]

\* handleClick that passes the turn on even when the column is filled.
handleClickFullSwitches(x) ==
  LET y == findSpotForCol(board, x)
      placed == [board EXCEPT ![y][x] = currPlayer.color]
  IN  IF y = null
      THEN /\ lastEvt' = [kind |-> "click", ret |-> "full"]
           /\ switchPlayers
           /\ UNCHANGED <<board, alerts, listening>>
      ELSE /\ board' = placed
           /\ lastEvt' = [kind |-> "click", ret |-> "placed"]
           /\ IF checkForWin(placed, currPlayer.color)
              THEN /\ endGame(WonMsg(currPlayer.color))
                   /\ UNCHANGED <<players, currPlayer>>
              ELSE IF isFull(placed)
              THEN /\ endGame(TieMsg)
                   /\ UNCHANGED <<players, currPlayer>>
              ELSE /\ switchPlayers
                   /\ UNCHANGED <<alerts, listening>>

\* handleClick that looks for a win on the board as it was before the piece
\* was placed.
handleClickStaleWin(x) ==
  LET y == findSpotForCol(board, x)
      placed == [board EXCEPT ![y][x] = currPlayer.color]
  IN  IF y = null
      THEN /\ lastEvt' = [kind |-> "click", ret |-> "full"]
           /\ UNCHANGED <<board, players, currPlayer, alerts, listening>>
      ELSE /\ board' = placed
           /\ lastEvt' = [kind |-> "click", ret |-> "placed"]
           /\ IF checkForWin(board, currPlayer.color)
              THEN /\ endGame(WonMsg(currPlayer.color))
                   /\ UNCHANGED <<players, currPlayer>>
              ELSE IF isFull(placed)
              THEN /\ endGame(TieMsg)
                   /\ UNCHANGED <<players, currPlayer>>
              ELSE /\ switchPlayers
                   /\ UNCHANGED <<alerts, listening>>

\* handleClick of the rotation variant, for a click on column top x.
handleClick(x) ==
  LET y == findSpotForCol(board, x)
      placed == [board EXCEPT ![y][x] = currPlayer.color]
  IN  IF y = null
      THEN /\ lastEvt' = [kind |-> "click", ret |-> "full"]
           /\ UNCHANGED <<board, players, currPlayer, alerts, listening>>
      ELSE /\ board' = placed
           /\ lastEvt' = [kind |-> "click", ret |-> "placed"]
           /\ IF checkForWin(placed, currPlayer.color)
              THEN /\ endGame(WonMsg(currPlayer.color))
                   /\ UNCHANGED <<players, currPlayer>>
              ELSE IF isFull(placed)
              THEN /\ endGame(TieMsg)
                   /\ UNCHANGED <<players, currPlayer>>
              ELSE /\ switchPlayers
                   /\ UNCHANGED <<alerts, listening>>

\* A click on the column top x is dispatched to the listener.
ClickRot(x) ==
  /\ variant = "rotation"
  /\ UserClicks
  /\ handleClick(x)
  /\ UNCHANGED <<variant, width, height, compPlayer, canClick, pending, offGrid>>

NextRot == \E x \in Cols : ClickRot(x)

SpecRot == InitRot /\ [][NextRot]_vars

---------------------------------------------------------------------------
(* The human/computer variant.                                             *)

\* new Player(color) and new ComputerPlayer(color).
HumanPlayer(color)    == [color |-> color, name |-> "Player"]
ComputerPlayer(color) == [color |-> color, name |-> "Computer"]

\* value || undefined, then the constructor's default parameter.
OrDefault(value, default) == IF value = "" THEN default ELSE value

InitHC ==
  /\ variant = "computer"
  /\ width \in 1..MaxWidth
  /\ height \in 1..MaxHeight
  /\ width * height <= MaxCells
  /\ board = makeBoard(width, height)
  /\ players = <<>>
  /\ \E p1Color \in FormColors(1) :
       currPlayer = HumanPlayer(OrDefault(p1Color, "red"))
  /\ \E p2Color \in FormColors(2) :
       compPlayer = ComputerPlayer(OrDefault(p2Color, "blue"))
  /\ canClick = TRUE
  /\ pending = 0
  /\ listening = TRUE
  /\ alerts = <<>>
  /\ lastEvt = NoEvt
  /\ offGrid = 0

\* makeMove: the board after player drops a piece in column x; the board
\* itself when the column is filled.
makeMove(b, x, player) ==
  LET y == findSpotForCol(b, x)
  IN  IF y = null THEN b ELSE [b EXCEPT ![y][x] = player.color]

\* evaluateGame that tests for the full board first.
evaluateGameTieFirst(b, player) ==
  IF isFull(b) THEN endGame(TieMsg)
  ELSE IF checkForWin(b, player.color) THEN endGame(WonMsg(player.name))
  ELSE UNCHANGED <<alerts, listening>>

\* evaluateGame: announce a win of player, else a tie, else nothing.
evaluateGame(b, player) ==
  IF checkForWin(b, player.color) THEN endGame(WonMsg(player.name))
  ELSE IF isFull(b) THEN endGame(TieMsg)
  ELSE UNCHANGED <<alerts, listening>>

\* handleClick that does not look at canClick.
handleClickHCNoLock(x) ==
  LET moved == makeMove(board, x, currPlayer)
  IN  /\ board' = moved
      /\ evaluateGame(moved, currPlayer)
      /\ canClick' = FALSE
      /\ pending' = pending + 1
      /\ lastEvt' = [kind |-> "click",
                     ret |-> IF ~canClick THEN "locked"
                             ELSE IF findSpotForCol(board, x) = null
                             THEN "full" ELSE "placed"]

\* handleClick without the statement this.canClick = false.
handleClickHCLeavesUnlocked(x) ==
  IF canClick
  THEN LET moved == makeMove(board, x, currPlayer)
       IN  /\ board' = moved
           /\ evaluateGame(moved, currPlayer)
           /\ canClick' = canClick
           /\ pending' = pending + 1
           /\ lastEvt' = [kind |-> "click",
                          ret |-> IF findSpotForCol(board, x) = null
                                  THEN "full" ELSE "placed"]
  ELSE /\ lastEvt' = [kind |-> "click", ret |-> "locked"]
       /\ UNCHANGED <<board, alerts, listening, canClick, pending>>

\* handleClick of the human/computer variant, for a click on column top x.
handleClickHC(x) ==
  IF canClick
  THEN LET moved == makeMove(board, x, currPlayer)
       IN  /\ board' = moved
           /\ evaluateGame(moved, currPlayer)
           /\ canClick' = FALSE
           /\ pending' = pending + 1
           /\ lastEvt' = [kind |-> "click",
                          ret |-> IF findSpotForCol(board, x) = null
                                  THEN "full" ELSE "placed"]
  ELSE /\ lastEvt' = [kind |-> "click", ret |-> "locked"]
       /\ UNCHANGED <<board, alerts, listening, canClick, pending>>

\* The callback without its last statement: the lock is never given back.
computerReplyKeepsLock(compX) ==
  LET moved == makeMove(board, compX, compPlayer)
  IN  /\ board' = moved
      /\ evaluateGame(moved, compPlayer)
      /\ canClick' = canClick
      /\ lastEvt' = [kind |-> "timer",
                     ret |-> IF findSpotForCol(board, compX) = null
                             THEN "full" ELSE "placed"]

\* The callback handed to setTimeout, with the column the computer drew.
computerReply(compX) ==
  LET moved == makeMove(board, compX, compPlayer)
  IN  /\ board' = moved
      /\ evaluateGame(moved, compPlayer)
      /\ canClick' = TRUE
      /\ lastEvt' = [kind |-> "timer",
                     ret |-> IF findSpotForCol(board, compX) = null
                             THEN "full" ELSE "placed"]

\* ComputerPlayer.makeMove: Math.floor(Math.random() * width).
ComputerColumns(w) == 0..(w - 1)

ClickHC(x) ==
  /\ variant = "computer"
  /\ UserClicks
  /\ handleClickHC(x)
  /\ UNCHANGED <<variant, width, height, players, currPlayer, compPlayer,
                 offGrid>>

\* A scheduled computer reply fires.
TimerHC ==
  /\ variant = "computer"
  /\ pending > 0
  /\ pending' = pending - 1
  /\ \E compX \in ComputerColumns(width) : computerReply(compX)
  /\ UNCHANGED <<variant, width, height, players, currPlayer, compPlayer,
                 offGrid>>

NextHC ==
  \/ \E x \in Cols : ClickHC(x)
  \/ TimerHC

SpecHC == InitHC /\ [][NextHC]_vars

\* setTimeout runs every callback it was given: a scheduled reply does not
\* stay pending forever.
SpecHCFair == SpecHC /\ WF_vars(TimerHC)

---------------------------------------------------------------------------
(* Either variant.                                                         *)

Init == InitRot \/ InitHC

Next ==
  \/ \E x \in Cols : ClickRot(x)
  \/ \E x \in Cols : ClickHC(x)
  \/ TimerHC

Spec == Init /\ [][Next]_vars

---------------------------------------------------------------------------
(* Clicks that land on the row of column tops itself: evt.target is the    *)
(* tr, whose id "column-top" converts to NaN.                              *)

\* findSpotForCol(NaN): the lowest row whose property "NaN" is falsy.
findSpotOffGrid == IF offGrid < height THEN height - 1 - offGrid ELSE null

\* this.board[y][NaN] = color sets a property of the row, not a cell of it.
setOffGrid(color) ==
  offGrid' = IF Truthy(color) THEN offGrid + 1 ELSE offGrid

\* handleClick of the rotation variant with x = NaN: placeInTable finds no
\* element with id y-NaN, so spot.append throws and the handler ends there.
handleClickOffGrid ==
  IF findSpotOffGrid = null
  THEN /\ lastEvt' = [kind |-> "offclick", ret |-> "full"]
       /\ UNCHANGED offGrid
  ELSE /\ setOffGrid(currPlayer.color)
       /\ lastEvt' = [kind |-> "offclick", ret |-> "threw"]

OffClickRot ==
  /\ variant = "rotation"
  /\ UserClicks
  /\ handleClickOffGrid
  /\ UNCHANGED <<variant, width, height, board, players, currPlayer,
                 compPlayer, canClick, pending, listening, alerts>>

\* handleClick of the human/computer variant with x = NaN: makeMove throws
\* out of handleClick when it finds a row, and returns when it finds none,
\* after which handleClick goes on as after any move.
handleClickHCOffGrid ==
  IF ~canClick
  THEN /\ lastEvt' = [kind |-> "offclick", ret |-> "locked"]
       /\ UNCHANGED <<alerts, listening, canClick, pending, offGrid>>
  ELSE IF findSpotOffGrid = null
  THEN /\ evaluateGame(board, currPlayer)
       /\ canClick' = FALSE
       /\ pending' = pending + 1
       /\ lastEvt' = [kind |-> "offclick", ret |-> "full"]
       /\ UNCHANGED offGrid
  ELSE /\ setOffGrid(currPlayer.color)
       /\ lastEvt' = [kind |-> "offclick", ret |-> "threw"]
       /\ UNCHANGED <<alerts, listening, canClick, pending>>

OffClickHC ==
  /\ variant = "computer"
  /\ UserClicks
  /\ handleClickHCOffGrid
  /\ UNCHANGED <<variant, width, height, board, players, currPlayer,
                 compPlayer>>

\* Either variant, with clicks on the row of column tops itself.
NextOff ==
  \/ \E x \in Cols : ClickRot(x)
  \/ \E x \in Cols : ClickHC(x)
  \/ TimerHC
  \/ OffClickRot
  \/ OffClickHC

SpecOff == Init /\ [][NextOff]_vars

---------------------------------------------------------------------------

(* checkForWin on hand-made grids: any cell may hold any token, gravity    *)
(* or turn order play no part.                                             *)

\* The token the grids are made of, and the tokens checkForWin is asked about.
GridToken == "red"
AskedTokens == {"red", "blue"}

\* Cells in row-major order.
CellIndex(y, x) == y * width + x

TokenCells(b) == {c \in Rows \X Cols : b[c[1]][c[2]] # undefined}

InitGrid ==
  /\ variant = "grid"
  /\ width \in 1..MaxWidth
  /\ height \in 1..MaxHeight
  /\ board = makeBoard(width, height)
  /\ players = <<>>
  /\ currPlayer = NoPlayer
  /\ compPlayer = NoPlayer
  /\ canClick = TRUE
  /\ pending = 0
  /\ listening = FALSE
  /\ alerts = <<>>
  /\ lastEvt = NoEvt
  /\ offGrid = 0

\* Write the token into the empty cell (y, x).
SetCell(y, x) ==
  /\ board[y][x] = undefined
  /\ board' = [board EXCEPT ![y][x] = GridToken]
  /\ UNCHANGED <<variant, width, height, players, currPlayer, compPlayer,
                 canClick, pending, listening, alerts, lastEvt, offGrid>>

\* Grids are filled in row-major order, so each grid is built in one way
\* only, and hold at most MaxTokens tokens.
NextGrid ==
  LET tc == TokenCells(board)
      last == IF tc = {} THEN -1
              ELSE CHOOSE i \in {CellIndex(c[1], c[2]) : c \in tc} :
                     \A c \in tc : CellIndex(c[1], c[2]) <= i
  IN  /\ Cardinality(tc) < MaxTokens
      /\ \E y \in Rows : \E x \in Cols :
           /\ CellIndex(y, x) > last
           /\ SetCell(y, x)

SpecGrid == InitGrid /\ [][NextGrid]_vars

---------------------------------------------------------------------------
(* What the claims speak of.                                               *)

\* The four directions of a line: right, down, down-right, down-left.
Directions == {<<0, 1>>, <<1, 0>>, <<1, 1>>, <<1, -1>>}

\* Some line of four cells, all inside the grid, holds color in every cell.
HasLine(b, color) ==
  \E y \in Rows : \E x \in Cols : \E d \in Directions :
    \A k \in 0..3 :
      /\ y + k * d[1] \in Rows
      /\ x + k * d[2] \in Cols
      /\ b[y + k * d[1]][x + k * d[2]] = color

---------------------------------------------------------------------------
\* C6: for every grid and every player token, checkForWin reports a win if
\* and only if some line of four cells in one of the four directions lies
\* wholly inside the grid and holds that token in all four cells.
C6_WinIffLine ==
  \A color \in AskedTokens : checkForWin(board, color) <=> HasLine(board, color)

\* A grid whose only tokens are a down-left diagonal of four.
C6_Witness ==
  /\ width >= 4
  /\ height >= 4
  /\ win(board, GridToken, diagDL(0, 3))
  /\ checkForWin(board, GridToken)
  /\ ~checkForWin(board, "blue")

---------------------------------------------------------------------------
(* The human/computer variant: the end of the game and the lock.           *)

\* The game is in progress: endGame has announced nothing.
InProgress == alerts = <<>>

\* The cells that hold the given color.
Pieces(color) == {c \in Rows \X Cols : board[c[1]][c[2]] = color}

\* C1: in the human/computer variant, once endGame has announced a win or a
\* tie, no later click and no later computer reply changes a cell of the
\* grid.
C1_TerminalGridFrozen == [][~InProgress => board' = board]_vars

\* C2: in the human/computer variant endGame is invoked at most once in a
\* game.
C2_EndGameOnce == Len(alerts) <= 1

\* C3: in the human/computer variant a click on a filled column, taken while
\* clicks are allowed, changes nothing: not the grid, not whose turn it is,
\* and no computer reply is scheduled.
C3_FullColumnClickNoOp ==
  [][\A x \in Cols :
       (canClick /\ findSpotForCol(board, x) = null /\ ClickHC(x))
         => UNCHANGED <<board, canClick, pending, alerts, listening>>]_vars

\* C4: in the human/computer variant the human has as many pieces on the
\* grid as the computer or one more, and a computer reply is scheduled only
\* by a human move that placed a piece and did not end the game.
C4_StrictAlternation ==
  /\ [](Cardinality(Pieces(currPlayer.color))
          - Cardinality(Pieces(compPlayer.color)) \in {0, 1})
  /\ [][pending' > pending
          => (lastEvt'.ret = "placed" /\ alerts' = <<>>)]_vars

\* C5: in the human/computer variant a click that arrives while canClick is
\* false changes no cell, schedules no computer reply and leaves nothing
\* behind to be applied later.
C5_LockedClickDropped ==
  [][\A x \in Cols :
       (~canClick /\ ClickHC(x))
         => UNCHANGED <<board, canClick, pending, alerts, listening>>]_vars

\* A click was dropped while the computer's reply was pending.
C5_Witness ==
  /\ lastEvt = [kind |-> "click", ret |-> "locked"]
  /\ ~canClick
  /\ pending = 1
  /\ InProgress

---------------------------------------------------------------------------
(* Either variant: wins and ties.                                          *)

\* The colors of the players of the game.
PlayerColors ==
  IF variant = "rotation"
  THEN {players[i].color : i \in 1..Len(players)}
  ELSE {currPlayer.color, compPlayer.color}

\* The player whose piece the step places: the computer in its reply, the
\* current player in a click.
Acting == IF lastEvt'.kind = "timer" THEN compPlayer ELSE currPlayer

\* The message that announces the win of player p.
WonBy(p) == IF variant = "rotation" THEN WonMsg(p.color) ELSE WonMsg(p.name)

\* The step places a piece.
PlacesPiece == lastEvt'.ret = "placed"

\* C7: a placement that leaves four tokens of the acting player in a line
\* announces, in the same move, the win of that player; so no player has
\* four tokens in a line while the game is in progress.
C7_WinEndsGame ==
  /\ [](InProgress => \A color \in PlayerColors : ~HasLine(board, color))
  /\ [][(PlacesPiece /\ HasLine(board', Acting.color))
          => alerts' = Append(alerts, WonBy(Acting))]_vars

\* The fourth piece of a column has just won a game between two colors.
C7_Witness ==
  /\ PlayerColors = {"red", "blue"}
  /\ lastEvt.ret = "placed"
  /\ Len(alerts) = 1
  /\ alerts[1].text = "won"
  /\ \E x \in Cols : \E color \in PlayerColors : win(board, color, vert(0, x))

\* C8: a placement that fills the last empty cell and completes four in a
\* line for the acting player announces an outcome that is not a tie; a game
\* whose first outcome is a tie holds no line of four of any player.
C8_WinBeforeTie ==
  /\ [][(PlacesPiece /\ isFull(board') /\ HasLine(board', Acting.color))
          => (/\ Len(alerts') = Len(alerts) + 1
              /\ alerts'[Len(alerts')] # TieMsg)]_vars
  /\ []((~InProgress /\ alerts[1] = TieMsg)
          => \A color \in PlayerColors : ~HasLine(board, color))

\* The piece that filled the grid has just won a game between two colors.
C8_Witness ==
  /\ PlayerColors = {"red", "blue"}
  /\ lastEvt.ret = "placed"
  /\ isFull(board)
  /\ Len(alerts) = 1
  /\ alerts[1].text = "won"

---------------------------------------------------------------------------
(* The rotation variant: clicks that are ignored.                          *)

\* C9: in the rotation variant, once a move has ended the game, no click
\* changes the grid, the player order or the current player.
C9_RotationTerminalFrozen ==
  [][~InProgress => UNCHANGED <<board, players, currPlayer>>]_vars

\* The game was won with empty cells left to click on.
C9_Witness ==
  /\ variant = "rotation"
  /\ ~InProgress
  /\ ~isFull(board)
  /\ ~listening

\* C10: in the rotation variant a click on a filled column changes no cell,
\* not the player order and not the current player.
C10_RotationFullColumnNoOp ==
  [][\A x \in Cols :
       (findSpotForCol(board, x) = null /\ ClickRot(x))
         => UNCHANGED <<board, players, currPlayer, alerts, listening>>]_vars

\* A filled column was clicked in a game in progress.
C10_Witness ==
  /\ variant = "rotation"
  /\ lastEvt = [kind |-> "click", ret |-> "full"]
  /\ InProgress
  /\ \E x \in Cols : findSpotForCol(board, x) = null

---------------------------------------------------------------------------
(* The rotation variant: the order of play.                                *)

\* The number of cells that hold a token.
Occupied == Cardinality({c \in Rows \X Cols : board[c[1]][c[2]] # undefined})

\* The player list is the creation order 1..N shifted left k times.
ShiftedBy(k) ==
  \A i \in 1..Len(players) : players[i].ref = ((k + i - 1) % Len(players)) + 1

\* C11: in the rotation variant every move that places a piece and does not
\* end the game puts the acting player last, makes the next one current and
\* keeps the others in order; the list is always a shift of the creation
\* order with the current player first, and, with tokens that fill their
\* cells, after m such moves it is the creation order shifted m times, so N
\* moves in a row restore it.
C11_RoundRobin ==
  /\ [](variant = "rotation" =>
          /\ currPlayer = players[1]
          /\ \E k \in 0..(Len(players) - 1) : ShiftedBy(k)
          /\ (InProgress /\ \A i \in 1..Len(players) : Truthy(players[i].color))
               => ShiftedBy(Occupied))
  /\ [][(variant = "rotation" /\ PlacesPiece /\ InProgress')
          => /\ players' = Append(Tail(players), currPlayer)
             /\ currPlayer' = players[2]]_vars

\* Three players have each moved once and the first one is to move again.
C11_Witness ==
  /\ variant = "rotation"
  /\ Len(players) = 3
  /\ InProgress
  /\ Occupied = 3
  /\ currPlayer.ref = 1
  /\ lastEvt.ret = "placed"

---------------------------------------------------------------------------
(* Where a piece lands.                                                    *)

\* The number of pieces column x holds.
ColumnPieces(x) == Cardinality({y \in Rows : board[y][x] # undefined})

\* C12: for a column that holds k pieces findSpotForCol gives row
\* height - 1 - k when k < height, and null exactly when k = height.
C12_LandingRow ==
  \A x \in Cols :
    findSpotForCol(board, x) =
      IF ColumnPieces(x) < height THEN height - 1 - ColumnPieces(x) ELSE null

\* The cells whose content a step changes.
ChangedCells == {c \in Rows \X Cols : board'[c[1]][c[2]] # board[c[1]][c[2]]}

\* C13: a cell that holds a token keeps it, and every move that places a
\* piece changes exactly one cell, which was empty before.
C13_PlacementIsFinal ==
  [][/\ \A c \in Rows \X Cols :
          board[c[1]][c[2]] # undefined => board'[c[1]][c[2]] = board[c[1]][c[2]]
     /\ PlacesPiece =>
          /\ Cardinality(ChangedCells) = 1
          /\ \A c \in ChangedCells : board[c[1]][c[2]] = undefined]_vars

---------------------------------------------------------------------------
(* Clicks outside the columns.                                             *)

\* C14: a click whose column index is outside 0..width-1 changes no cell,
\* leaves the dimensions of the grid alone and does not pass the turn on:
\* same player order and current player, no reply of the computer
\* scheduled, no lock taken, nothing announced.
C14_OffGridClickIgnored ==
  [][(OffClickRot \/ OffClickHC)
       => UNCHANGED <<board, width, height, players, currPlayer, canClick,
                      pending, alerts, listening>>]_vars

---------------------------------------------------------------------------
(* Grids too small for a line of four.                                     *)

\* C15: in the rotation variant, on a grid narrower and lower than four,
\* nothing but a tie is ever announced, and the game is in progress exactly
\* as long as fewer than width * height pieces have been placed.
C15_SmallGridTies ==
  (variant = "rotation" /\ width < 4 /\ height < 4)
    => /\ alerts \in {<<>>, <<TieMsg>>}
       /\ InProgress <=> Occupied < width * height

---------------------------------------------------------------------------
(* The players' tokens.                                                    *)

\* The players of the game, in either variant.
ActivePlayers ==
  IF variant = "rotation" THEN {players[i] : i \in 1..Len(players)}
  ELSE {currPlayer, compPlayer}

\* C16: in every game no two of its players hold the same token.
C16_DistinctTokens ==
  \A p \in ActivePlayers : \A q \in ActivePlayers :
    p # q => p.color # q.color

---------------------------------------------------------------------------
(* The lock of the human/computer variant.                                 *)

\* C17: whenever canClick is false it becomes true again, given that every
\* scheduled callback is run.
C17_LockReleased == ~canClick ~> canClick

\* A reply of the computer has run and clicks are accepted again.
C17_Witness ==
  /\ variant = "computer"
  /\ lastEvt.kind = "timer"
  /\ canClick
  /\ pending = 0

\* C18: at most one reply of the computer is pending; the lock is held
\* exactly while one is, from the click that scheduled it to the callback
\* that applies and evaluates it; while it is held the only placement is
\* that reply's.
C18_OneReplyPending ==
  /\ [](pending <= 1 /\ (canClick <=> pending = 0))
  /\ [][(canClick /\ \E x \in Cols : ClickHC(x))
          => (~canClick' /\ pending' = 1)]_vars
  /\ [][(~canClick /\ board' # board)
          => (TimerHC /\ canClick' /\ pending' = 0)]_vars

\* The human has placed a piece and the reply to it has not run yet.
C18_Witness ==
  /\ variant = "computer"
  /\ lastEvt = [kind |-> "click", ret |-> "placed"]
  /\ ~canClick
  /\ pending = 1
  /\ Occupied = 1

---------------------------------------------------------------------------
(* Gravity.                                                                *)

\* C19: in either variant no cell that holds a token has an empty cell
\* below it: the pieces of a column form one block standing on the bottom
\* row.
C19_Gravity ==
  \A x \in Cols : \A y \in Rows :
    board[y][x] # undefined
      => \A y2 \in Rows : y2 > y => Truthy(board[y2][x])

\* Two pieces are stacked in a column that has room left above them.
C19_Witness ==
  /\ variant \in {"rotation", "computer"}
  /\ \E x \in Cols :
       /\ ColumnPieces(x) = 2
       /\ height > 2
       /\ board[height - 1][x] # board[height - 2][x]

=============================================================================
